---- MODULE Spec2Model ----
(***************************************************************************)
(* Smart Translator: the POST /translate and GET /languages handlers of    *)
(* the two deployments of the service (src/main.py, one provider;          *)
(* src/src/main.py, two providers), the language lookup and the response   *)
(* clean-up.                                                               *)
(*                                                                         *)
(* Text is a sequence of one-character strings, so that strip(),           *)
(* startswith(), lower() and slicing are computed as Python computes them. *)
(* Confidence is in hundredths (95 is 0.95).                               *)
(***************************************************************************)
EXTENDS Integers, Sequences, FiniteSets, TLC

VARIABLES
    deployed,             \* which main.py runs: "single" or "dual"
    GROQ_API_KEY,         \* os.getenv("GROQ_API_KEY") at process start
    HF_API_KEY,           \* os.getenv("HUGGINGFACE_API_KEY") at process start
    GOOGLE_AI_API_KEY,    \* os.getenv("GOOGLE_AI_API_KEY")
    languages,            \* the module-level list SUPPORTED_LANGUAGES
    pc,                   \* "idle": no request in progress; "responded"
    request,              \* the TranslationRequest being served
    prompt,               \* the prompt built for it, or NoPrompt
    calls,                \* the upstream calls made for it, in order
    upstream,             \* what the called provider answered, or NoAnswer
    response,             \* the HTTP response of the request
    earlier,              \* status of the previous request's response (0: none)
    raw,                  \* clean-up harness: a raw upstream text
    once,                 \* clean-up harness: clean_up(raw)
    twice,                \* clean-up harness: clean_up(once)
    stage,                \* harness position
    codes,                \* lookup harness: <<source code, target code>>
    names                 \* lookup harness: the two resolved names

vars == <<deployed, GROQ_API_KEY, HF_API_KEY, GOOGLE_AI_API_KEY, languages, pc,
          request, prompt, calls, upstream, response, earlier,
          raw, once, twice, stage, codes, names>>

service_vars == <<deployed, GROQ_API_KEY, HF_API_KEY, GOOGLE_AI_API_KEY, pc,
                  request, prompt, calls, upstream, response, earlier>>
cleanup_vars == <<raw, once, twice>>
lookup_vars == <<codes, names>>

(***************************************************************************)
(* Bounds                                                                  *)
(***************************************************************************)
\* raw upstream texts of the clean-up harness are built of at most this many fragments
MaxPieces == 3
\* upstream texts answered to the service are built of at most this many fragments
MaxBodyPieces == 1

(***************************************************************************)
(* Python values                                                           *)
(***************************************************************************)
\* Python's None, where a string is expected (an unset variable, a null field)
None == "<None>"

\* truthiness of an Optional[str]: None and "" are falsy
Truthy(s) == s # None /\ s # ""

(***************************************************************************)
(* str methods                                                             *)
(***************************************************************************)
UpperCase == <<"A","B","C","D","E","F","G","H","I","J","K","L","M",
               "N","O","P","Q","R","S","T","U","V","W","X","Y","Z">>
LowerCase == <<"a","b","c","d","e","f","g","h","i","j","k","l","m",
               "n","o","p","q","r","s","t","u","v","w","x","y","z">>

lower_char(c) ==
    IF \E i \in DOMAIN UpperCase : UpperCase[i] = c
    THEN LowerCase[CHOOSE i \in DOMAIN UpperCase : UpperCase[i] = c]
    ELSE c

\* str.lower()
lower(s) == [i \in 1..Len(s) |-> lower_char(s[i])]

\* the characters str.strip() removes
Whitespace == {" ", "\n", "\t"}

RECURSIVE lstrip(_)
lstrip(s) == IF s # <<>> /\ Head(s) \in Whitespace THEN lstrip(Tail(s)) ELSE s

RECURSIVE rstrip(_)
rstrip(s) ==
    IF s # <<>> /\ s[Len(s)] \in Whitespace THEN rstrip(SubSeq(s, 1, Len(s) - 1)) ELSE s

\* str.strip()
strip(s) == rstrip(lstrip(s))

\* str.startswith(p)
startswith(s, p) == Len(s) >= Len(p) /\ SubSeq(s, 1, Len(p)) = p

\* str.endswith(p)
endswith(s, p) == Len(s) >= Len(p) /\ SubSeq(s, Len(s) - Len(p) + 1, Len(s)) = p

\* s[n:]
slice_from(s, n) == SubSeq(s, n + 1, Len(s))

\* s[1:-1]
slice_inner(s) == SubSeq(s, 2, Len(s) - 1)

(***************************************************************************)
(* The response clean-up                                                   *)
(***************************************************************************)
Quote == <<"\"">>
PrefixTranslation == <<"T","r","a","n","s","l","a","t","i","o","n",":">>
PrefixTranslatedText ==
    <<"T","r","a","n","s","l","a","t","e","d"," ","t","e","x","t",":">>
PrefixHeres ==
    <<"H","e","r","e","'","s"," ","t","h","e"," ",
      "t","r","a","n","s","l","a","t","i","o","n",":">>

\* prefixes = ["Translation:", "Translated text:", "Here's the translation:"]
prefixes == <<PrefixTranslation, PrefixTranslatedText, PrefixHeres>>

\* if text.startswith('"') and text.endswith('"'): text = text[1:-1]
strip_quotes(text) ==
    IF startswith(text, Quote) /\ endswith(text, Quote) THEN slice_inner(text) ELSE text

\* a prefix test that forgets lower()
strip_prefix_case_sensitive(text, prefix) ==
    IF startswith(text, prefix)
    THEN strip(slice_from(text, Len(prefix)))
    ELSE text

\* a prefix removal that forgets the strip() of what is left
strip_prefix_unstripped(text, prefix) ==
    IF startswith(lower(text), lower(prefix))
    THEN slice_from(text, Len(prefix))
    ELSE text

\* one turn of the loop: if text.lower().startswith(prefix.lower()): text = text[len(prefix):].strip()
strip_prefix(text, prefix) ==
    IF startswith(lower(text), lower(prefix))
    THEN strip(slice_from(text, Len(prefix)))
    ELSE text

RECURSIVE strip_prefixes(_, _)
\* for prefix in prefixes: ...
strip_prefixes(text, ps) ==
    IF ps = <<>> THEN text ELSE strip_prefixes(strip_prefix(text, Head(ps)), Tail(ps))

\* "Clean up the response" of translate_with_groq and translate_with_huggingface
clean_up(text) == strip_prefixes(strip_quotes(strip(strip(text))), prefixes)

(***************************************************************************)
(* The language table and its lookup                                       *)
(***************************************************************************)
\* SUPPORTED_LANGUAGES as the module defines it (native names written in ASCII)
SUPPORTED_LANGUAGES == <<
    [code |-> "en", name |-> "English",    native_name |-> "English"],
    [code |-> "es", name |-> "Spanish",    native_name |-> "Espanol"],
    [code |-> "fr", name |-> "French",     native_name |-> "Francais"],
    [code |-> "de", name |-> "German",     native_name |-> "Deutsch"],
    [code |-> "it", name |-> "Italian",    native_name |-> "Italiano"],
    [code |-> "pt", name |-> "Portuguese", native_name |-> "Portugues"],
    [code |-> "ja", name |-> "Japanese",   native_name |-> "Nihongo"],
    [code |-> "ko", name |-> "Korean",     native_name |-> "Hangugeo"],
    [code |-> "zh", name |-> "Chinese",    native_name |-> "Zhongwen"] >>

RECURSIVE scan_languages_echo(_, _)
\* a lookup that falls back to the code itself
scan_languages_echo(table, code) ==
    IF table = <<>> THEN code
    ELSE IF Head(table).code = code THEN Head(table).name
    ELSE scan_languages_echo(Tail(table), code)

RECURSIVE scan_languages(_, _)
\* for lang in SUPPORTED_LANGUAGES: if lang["code"] == code: return lang["name"]
scan_languages(table, code) ==
    IF table = <<>> THEN "Unknown"
    ELSE IF Head(table).code = code THEN Head(table).name
    ELSE scan_languages(Tail(table), code)

\* get_language_name(code), reading the table as it is now
get_language_name(code) == scan_languages(languages, code)

(***************************************************************************)
(* Requests, upstream answers, results                                     *)
(***************************************************************************)
Fragments == { <<" ">>, Quote, <<"h","i">>, PrefixTranslation,
               <<"T","R","A","N","S","L","A","T","I","O","N",":">>,
               PrefixTranslatedText, PrefixHeres }

\* texts a provider answers with: a bare word, a quoted one, a padded one, and
\* answers that open with a known prefix
BodyFragments ==
    { <<"h","i">>,
      Quote \o <<"h","i">> \o Quote,
      <<" ">> \o <<"h","i">> \o <<"\n">>,
      Quote,
      PrefixTranslation \o <<" ">>,
      <<"t","r","a","n","s","l","a","t","e","d"," ","T","E","X","T",":">>,
      PrefixHeres \o <<" ">> }

RECURSIVE TextsOf(_, _)
\* the texts made of at most n of the fragments
TextsOf(fragments, n) ==
    IF n = 0 THEN { <<>> }
    ELSE LET shorter == TextsOf(fragments, n - 1)
         IN  shorter \cup { t \o f : t \in shorter, f \in fragments }

\* TranslationRequest: text: str, source_language: Optional[str] = "auto",
\* target_language: str, context: Optional[str] = None
Requests ==
    [ text : { <<>>, <<" ", "\n">>, <<"h","i">> },
      source_language : { None, "auto", "en" },
      target_language : { "es", "xx" },
      context : { None, "chat" } ]

NoRequest == [text |-> <<>>, source_language |-> "auto", target_language |-> "", context |-> None]
NoPrompt == [built |-> FALSE]
NoJson == [shape |-> "none", text |-> <<>>]
NoAnswer == [from |-> "none", kind |-> "none", status |-> 0, text |-> "", body |-> NoJson]
NoBody == [none |-> TRUE]
NoResponse == [status |-> 0, detail |-> <<>>, body |-> NoBody]

\* bodies a provider may send with status 200
GroqShapes == { "no_choices", "empty_choices", "null_content", "not_json" }
HFShapes == { "empty_list", "list_of_string", "list_of_empty_object", "empty_object",
              "list_of_number_value", "object_null_value", "null", "not_json" }
GeminiShapes == { "blocked" }

\* what a call to a provider can come back with: the call raising (a timeout, a
\* refused connection, a Google API error), a response with a status other than 200,
\* or a response with status 200 and some body
FailuresOf(provider) ==
    { [from |-> provider, kind |-> "exception", status |-> 0,
       text |-> "Read timed out.", body |-> NoJson] }
    \cup
    IF provider = "gemini"
    THEN { [from |-> provider, kind |-> "exception", status |-> 503,
            text |-> "503 The model is overloaded.", body |-> NoJson] }
    ELSE { [from |-> provider, kind |-> "response", status |-> st.code,
            text |-> st.text, body |-> NoJson] :
           st \in { [code |-> 503, text |-> "Service Unavailable"],
                    [code |-> 429, text |-> "Rate limit reached"] } }

BodiesOf(provider) ==
    LET texts == TextsOf(BodyFragments, MaxBodyPieces)
    IN  CASE provider = "groq" ->
               { [shape |-> "chat", text |-> t] : t \in texts }
               \cup { [shape |-> sh, text |-> <<>>] : sh \in GroqShapes }
          [] provider = "huggingface" ->
               { [shape |-> sh, text |-> t] :
                     sh \in { "list_of_object", "object", "string" }, t \in texts }
               \cup { [shape |-> sh, text |-> <<>>] : sh \in HFShapes }
          [] OTHER ->
               { [shape |-> "text", text |-> t] : t \in texts }
               \cup { [shape |-> sh, text |-> <<>>] : sh \in GeminiShapes }

AnswersOf(provider) ==
    IF provider = "none" THEN { NoAnswer }
    ELSE FailuresOf(provider)
         \cup { [from |-> provider, kind |-> "response", status |-> 200,
                 text |-> "", body |-> b] : b \in BodiesOf(provider) }

Providers == { "groq", "huggingface", "gemini" }

\* results of a call: a value returned or an exception raised
Return(body) == [kind |-> "return", status |-> 200, detail |-> <<>>, body |-> body]
RaiseHTTP(status, detail) ==
    [kind |-> "HTTPException", status |-> status, detail |-> detail, body |-> NoBody]
Raise(message) == [kind |-> "Exception", status |-> 0, detail |-> message, body |-> NoBody]

\* TranslationResponse(...): every field but confidence and ai_enhanced is a str, and
\* pydantic refuses None for a str field
TranslationResponse(translated_text, source_language, target_language, confidence) ==
    IF source_language = None \/ target_language = None
    THEN Raise(<<"1 validation error for TranslationResponse">>)
    ELSE Return([translated_text |-> translated_text,
                 source_language |-> source_language,
                 target_language |-> target_language,
                 confidence |-> confidence,
                 ai_enhanced |-> TRUE])

(***************************************************************************)
(* src/src/main.py: the two-provider deployment                            *)
(***************************************************************************)
Extracted(text) == [ok |-> TRUE, text |-> text, error |-> ""]
ExtractFails(error) == [ok |-> FALSE, text |-> <<>>, error |-> error]

\* not request.text or not request.text.strip()
is_blank(text) == text = <<>> \/ strip(text) = <<>>

\* the f-string prompt of translate_text, by its variable parts
build_prompt(req) ==
    [ built |-> TRUE,
      source_lang_name |-> IF req.source_language # "auto"
                           THEN get_language_name(req.source_language)
                           ELSE "the detected language",
      target_lang_name |-> get_language_name(req.target_language),
      context |-> IF Truthy(req.context) THEN req.context ELSE "",
      text |-> req.text ]

\* a dispatch that asks Hugging Face first
select_provider_hf_first ==
    IF Truthy(HF_API_KEY) THEN "huggingface"
    ELSE IF Truthy(GROQ_API_KEY) THEN "groq"
    ELSE "none"

\* a dispatch that tests "is not None" where the code tests truthiness
select_provider_not_none ==
    IF GROQ_API_KEY # None THEN "groq"
    ELSE IF HF_API_KEY # None THEN "huggingface"
    ELSE "none"

\* if GROQ_API_KEY: ... / if HF_API_KEY: ... / raise HTTPException(500)
select_provider ==
    IF Truthy(GROQ_API_KEY) THEN "groq"
    ELSE IF Truthy(HF_API_KEY) THEN "huggingface"
    ELSE "none"

\* response.json() and result["choices"][0]["message"]["content"].strip()
groq_extract(body) ==
    CASE body.shape = "chat" -> Extracted(strip(body.text))
      [] body.shape = "no_choices" -> ExtractFails("'choices'")
      [] body.shape = "empty_choices" -> ExtractFails("list index out of range")
      [] body.shape = "null_content" ->
             ExtractFails("'NoneType' object has no attribute 'strip'")
      [] OTHER -> ExtractFails("Expecting value: line 1 column 1 (char 0)")

\* if response.status_code != 200: raise Exception(f"Groq API error: {error_msg}")
groq_status_error(answer) == Raise(<<"Groq API error: ", answer.text>>)

translate_with_groq(req, answer) ==
    IF answer.kind = "exception" THEN Raise(<<answer.text>>)
    ELSE IF answer.status # 200 THEN groq_status_error(answer)
    ELSE LET content == groq_extract(answer.body)
         IN  IF ~content.ok THEN Raise(<<content.error>>)
             ELSE TranslationResponse(clean_up(content.text), req.source_language,
                                      req.target_language, 95)

\* response.json() and the isinstance ladder that extracts the translated text
hf_extract(body) ==
    CASE body.shape = "list_of_object" -> Extracted(strip(body.text))
      [] body.shape = "list_of_empty_object" -> Extracted(strip(<<>>))
      [] body.shape = "list_of_string" ->
             ExtractFails("'str' object has no attribute 'get'")
      [] body.shape = "list_of_number_value" ->
             ExtractFails("'int' object has no attribute 'strip'")
      [] body.shape = "object" -> Extracted(strip(body.text))
      [] body.shape = "empty_object" -> Extracted(strip(<<>>))
      [] body.shape = "object_null_value" ->
             ExtractFails("'NoneType' object has no attribute 'strip'")
      [] body.shape = "empty_list" -> Extracted(strip(<<"[", "]">>))
      [] body.shape = "string" -> Extracted(strip(body.text))
      [] body.shape = "null" -> Extracted(strip(<<"N", "o", "n", "e">>))
      [] OTHER -> ExtractFails("Expecting value: line 1 column 1 (char 0)")

\* a status check that knows no loading state, as that of translate_with_groq
hf_status_error_generic(answer) == Raise(<<"Hugging Face API error: ", answer.text>>)

\* the two status checks of translate_with_huggingface
hf_status_error(answer) ==
    IF answer.status = 503
    THEN RaiseHTTP(503, <<"Model is loading. Please try again in a few seconds.">>)
    ELSE Raise(<<"Hugging Face API error: ", answer.text>>)

\* a fallback that keeps the confidence of the primary provider
translate_with_huggingface_primary_confidence(req, answer) ==
    IF answer.kind = "exception" THEN Raise(<<answer.text>>)
    ELSE IF answer.status # 200 THEN hf_status_error(answer)
    ELSE LET generated == hf_extract(answer.body)
         IN  IF ~generated.ok THEN Raise(<<generated.error>>)
             ELSE TranslationResponse(clean_up(generated.text), req.source_language,
                                      req.target_language, 95)

translate_with_huggingface(req, answer) ==
    IF answer.kind = "exception" THEN Raise(<<answer.text>>)
    ELSE IF answer.status # 200 THEN hf_status_error(answer)
    ELSE LET generated == hf_extract(answer.body)
         IN  IF ~generated.ok THEN Raise(<<generated.error>>)
             ELSE TranslationResponse(clean_up(generated.text), req.source_language,
                                      req.target_language, 90)

\* a handler that hides what went wrong
except_handler_generic(result) ==
    IF result.kind = "Exception"
    THEN RaiseHTTP(500, <<"Translation failed">>)
    ELSE result

\* except HTTPException: raise / except Exception as e: raise HTTPException(500, ...)
except_handler(result) ==
    IF result.kind = "Exception"
    THEN RaiseHTTP(500, <<"Translation failed: ">> \o result.detail)
    ELSE result

\* an exception that leaves the handler: the framework answers 500
unhandled(result) ==
    IF result.kind = "Exception" THEN RaiseHTTP(500, <<"Internal Server Error">>)
    ELSE result

\* the HTTP response the framework sends for a handler's result
http_response(result) ==
    [status |-> result.status, detail |-> result.detail, body |-> result.body]

NoKeyDetail ==
    "No API key configured. Please set GROQ_API_KEY or HUGGINGFACE_API_KEY in your .env file."

\* the try block of translate_text: the provider that is called and what comes of it
dispatch(req, answer) ==
    LET provider == select_provider
    IN  CASE provider = "groq" ->
               [calls |-> <<"groq">>, result |-> translate_with_groq(req, answer)]
          [] provider = "huggingface" ->
               [calls |-> <<"huggingface">>,
                result |-> translate_with_huggingface(req, answer)]
          [] OTHER ->
               [calls |-> <<>>, result |-> RaiseHTTP(500, <<NoKeyDetail>>)]

\* POST /translate of src/src/main.py
translate_text(req, answer) ==
    IF is_blank(req.text)
    THEN [prompt |-> NoPrompt, calls |-> <<>>,
          response |-> http_response(unhandled(
              TranslationResponse(<<>>, req.source_language, req.target_language, 0)))]
    ELSE LET called == dispatch(req, answer)
         IN  [prompt |-> build_prompt(req), calls |-> called.calls,
              response |-> http_response(unhandled(except_handler(called.result)))]

(***************************************************************************)
(* src/main.py: the single-provider deployment                             *)
(***************************************************************************)
\* the f-string prompt of src/main.py: the source name is always looked up
build_prompt_gemini(req) ==
    [ built |-> TRUE,
      source_lang_name |-> get_language_name(req.source_language),
      target_lang_name |-> get_language_name(req.target_language),
      context |-> IF Truthy(req.context) THEN req.context ELSE "",
      text |-> req.text ]

\* response.text.strip(): the text, or ValueError for a blocked answer
gemini_extract(body) ==
    IF body.shape = "text" THEN Extracted(strip(body.text))
    ELSE ExtractFails("The response.text quick accessor requires a valid Part.")

\* the try block of src/main.py
translate_with_gemini(req, answer) ==
    IF answer.kind = "exception" THEN Raise(<<answer.text>>)
    ELSE LET text == gemini_extract(answer.body)
         IN  IF ~text.ok THEN Raise(<<text.error>>)
             ELSE TranslationResponse(strip_quotes(text.text), req.source_language,
                                      req.target_language, 95)

GoogleKeyDetail == "Google AI API key not configured. Please check your .env file."

\* POST /translate of src/main.py
translate_text_gemini(req, answer) ==
    IF ~Truthy(GOOGLE_AI_API_KEY)
    THEN [prompt |-> NoPrompt, calls |-> <<>>,
          response |-> http_response(RaiseHTTP(500, <<GoogleKeyDetail>>))]
    ELSE [prompt |-> build_prompt_gemini(req), calls |-> <<"gemini">>,
          response |-> http_response(unhandled(except_handler(
                           translate_with_gemini(req, answer))))]

(***************************************************************************)
(* The service: one request at a time, no state kept between requests      *)
(***************************************************************************)
\* what os.getenv can give for a key: unset, set to nothing, set
Keys == { None, "", "secret" }

NoCodes == <<"", "">>

HarnessIdle ==
    /\ raw = <<>> /\ once = <<>> /\ twice = <<>>
    /\ codes = NoCodes /\ names = NoCodes

ServiceIdle ==
    /\ pc = "idle"
    /\ request = NoRequest
    /\ prompt = NoPrompt
    /\ calls = <<>>
    /\ upstream = NoAnswer
    /\ response = NoResponse
    /\ earlier = 0

Init ==
    /\ deployed \in { "single", "dual" }
    /\ IF deployed = "dual"
       THEN GROQ_API_KEY \in Keys /\ HF_API_KEY \in Keys /\ GOOGLE_AI_API_KEY = None
       ELSE GROQ_API_KEY = None /\ HF_API_KEY = None /\ GOOGLE_AI_API_KEY \in Keys
    /\ languages = SUPPORTED_LANGUAGES
    /\ ServiceIdle
    /\ stage = "service"
    /\ HarnessIdle

\* the answer the handler consumed is the answer of the provider it called
Consumed(out, answer) ==
    out.calls = (IF answer = NoAnswer THEN <<>> ELSE <<answer.from>>)

Respond(req, answer, out) ==
    /\ request' = req
    /\ prompt' = out.prompt
    /\ calls' = out.calls
    /\ upstream' = answer
    /\ response' = out.response
    /\ pc' = "responded"
    /\ UNCHANGED <<deployed, GROQ_API_KEY, HF_API_KEY, GOOGLE_AI_API_KEY, languages,
                   earlier, raw, once, twice, stage, codes, names>>

\* POST /translate on src/src/main.py
TranslateDual ==
    /\ stage = "service" /\ pc = "idle" /\ deployed = "dual"
    /\ \E req \in Requests, p \in { "groq", "huggingface", "none" } :
         \E answer \in AnswersOf(p) :
            LET out == translate_text(req, answer)
            IN  Consumed(out, answer) /\ Respond(req, answer, out)

\* POST /translate on src/main.py
TranslateSingle ==
    /\ stage = "service" /\ pc = "idle" /\ deployed = "single"
    /\ \E req \in Requests, p \in { "gemini", "none" } :
         \E answer \in AnswersOf(p) :
            LET out == translate_text_gemini(req, answer)
            IN  Consumed(out, answer) /\ Respond(req, answer, out)

\* GET /languages (both deployments): return SUPPORTED_LANGUAGES
GetLanguages ==
    /\ stage = "service" /\ pc = "idle"
    /\ response' = [status |-> 200, detail |-> <<>>, body |-> [languages |-> languages]]
    /\ pc' = "responded"
    /\ UNCHANGED <<deployed, GROQ_API_KEY, HF_API_KEY, GOOGLE_AI_API_KEY, languages,
                   request, prompt, calls, upstream, earlier,
                   raw, once, twice, stage, codes, names>>

\* the response is sent; nothing of the request is kept
Deliver ==
    /\ stage = "service" /\ pc = "responded"
    /\ earlier' = response.status
    /\ pc' = "idle"
    /\ request' = NoRequest
    /\ prompt' = NoPrompt
    /\ calls' = <<>>
    /\ upstream' = NoAnswer
    /\ response' = NoResponse
    /\ UNCHANGED <<deployed, GROQ_API_KEY, HF_API_KEY, GOOGLE_AI_API_KEY, languages,
                   raw, once, twice, stage, codes, names>>

Next == TranslateDual \/ TranslateSingle \/ GetLanguages \/ Deliver

Spec == Init /\ [][Next]_vars

(***************************************************************************)
(* The clean-up on its own: every raw text, cleaned once and once more     *)
(***************************************************************************)
InitCleanUp ==
    /\ deployed = "dual"
    /\ GROQ_API_KEY = "secret" /\ HF_API_KEY = "secret" /\ GOOGLE_AI_API_KEY = None
    /\ languages = SUPPORTED_LANGUAGES
    /\ ServiceIdle
    /\ stage = "raw"
    /\ raw \in TextsOf(Fragments, MaxPieces)
    /\ once = <<>> /\ twice = <<>>
    /\ codes = NoCodes /\ names = NoCodes

CleanOnce ==
    /\ stage = "raw"
    /\ once' = clean_up(raw)
    /\ stage' = "once"
    /\ UNCHANGED <<service_vars, languages, raw, twice, lookup_vars>>

CleanAgain ==
    /\ stage = "once"
    /\ twice' = clean_up(once)
    /\ stage' = "twice"
    /\ UNCHANGED <<service_vars, languages, raw, once, lookup_vars>>

NextCleanUp == CleanOnce \/ CleanAgain

SpecCleanUp == InitCleanUp /\ [][NextCleanUp]_vars

(***************************************************************************)
(* The lookup on its own: the two lookups a request makes                  *)
(***************************************************************************)
\* codes a request may carry: those of the table, and some that are not in it
LookupCodes ==
    { SUPPORTED_LANGUAGES[i].code : i \in DOMAIN SUPPORTED_LANGUAGES }
    \cup { None, "auto", "", "xx", "EN", "English" }

InitLookup ==
    /\ deployed = "single"
    /\ GROQ_API_KEY = None /\ HF_API_KEY = None /\ GOOGLE_AI_API_KEY = "secret"
    /\ languages = SUPPORTED_LANGUAGES
    /\ ServiceIdle
    /\ stage = "codes"
    /\ codes \in LookupCodes \X LookupCodes
    /\ names = NoCodes
    /\ raw = <<>> /\ once = <<>> /\ twice = <<>>

\* source_lang_name = get_language_name(...); target_lang_name = get_language_name(...)
ResolveNames ==
    /\ stage = "codes"
    /\ names' = <<get_language_name(codes[1]), get_language_name(codes[2])>>
    /\ stage' = "names"
    /\ UNCHANGED <<service_vars, languages, cleanup_vars, codes>>

NextLookup == ResolveNames

SpecLookup == InitLookup /\ [][NextLookup]_vars

(***************************************************************************)
(* Properties                                                              *)
(***************************************************************************)
\* a POST /translate has been answered and the answer is not yet sent
Translated == pc = "responded" /\ request # NoRequest

Configured ==
    IF deployed = "dual" THEN Truthy(GROQ_API_KEY) \/ Truthy(HF_API_KEY)
    ELSE Truthy(GOOGLE_AI_API_KEY)

\* the call that was made did not come back with status 200
UpstreamFailed ==
    calls # <<>> /\ (upstream.kind = "exception" \/ upstream.status # 200)

\* C1: on src/src/main.py, a request with non-blank text calls Groq whenever
\* GROQ_API_KEY is set, Hugging Face only when GROQ_API_KEY is absent and
\* HUGGINGFACE_API_KEY is set, and no provider otherwise, whatever the provider
\* answers now and whatever the previous request ended in.
C1_ProviderByCredential ==
    (Translated /\ deployed = "dual" /\ ~is_blank(request.text)) =>
        /\ Truthy(GROQ_API_KEY) => calls = <<"groq">>
        /\ (~Truthy(GROQ_API_KEY) /\ Truthy(HF_API_KEY)) => calls = <<"huggingface">>
        /\ (~Truthy(GROQ_API_KEY) /\ ~Truthy(HF_API_KEY)) => calls = <<>>
        /\ calls = <<"huggingface">> => (~Truthy(GROQ_API_KEY) /\ Truthy(HF_API_KEY))

\* both keys set, the previous request failed and Groq is failing now: Groq is called
C1_Witness ==
    /\ Translated /\ deployed = "dual" /\ ~is_blank(request.text)
    /\ Truthy(GROQ_API_KEY) /\ Truthy(HF_API_KEY)
    /\ earlier = 500
    /\ upstream.status = 503
    /\ calls = <<"groq">>

ConfigurationError ==
    /\ response.status = 500
    /\ response.detail = (IF deployed = "dual" THEN <<NoKeyDetail>> ELSE <<GoogleKeyDetail>>)
    /\ calls = <<>>
    /\ upstream = NoAnswer

\* C2 as stated: with no provider credential configured, every POST /translate,
\* whatever its text, is answered with a 500 configuration error and no upstream call
\* (read here for the requests that carry a source language).
C2_AnyTextConfigurationError ==
    (Translated /\ ~Configured /\ request.source_language # None) => ConfigurationError

\* C2 as amended: with no provider credential configured, POST /translate is answered
\* with a 500 configuration error and no upstream call for every text on src/main.py
\* and for every non-blank text on src/src/main.py.
C2_ConfigurationError ==
    (Translated /\ ~Configured /\ (deployed = "dual" => ~is_blank(request.text)))
        => ConfigurationError

C2_Witness ==
    /\ Translated /\ ~Configured /\ deployed = "dual" /\ ~is_blank(request.text)
    /\ GROQ_API_KEY = "" /\ HF_API_KEY = None
    /\ response.status = 500

\* prefix stands at place k of text, in any letter case
StandsAt(text, k, prefix) ==
    /\ k + Len(prefix) - 1 <= Len(text)
    /\ \A j \in 1..Len(prefix) : lower_char(text[k + j - 1]) = lower_char(prefix[j])

\* text begins with one of the known prefixes, in any letter case
BeginsWithKnownPrefix(text) ==
    \E i \in DOMAIN prefixes : StandsAt(text, 1, prefixes[i])

\* the places of text where a known prefix stands, in any letter case
PrefixOccurrences(text) ==
    { k \in 1..Len(text) : \E i \in DOMAIN prefixes : StandsAt(text, k, prefixes[i]) }

\* text opens and closes with a double quote (a lone quote does both)
Wrapped(text) == Len(text) >= 1 /\ Head(text) = "\"" /\ text[Len(text)] = "\""

\* text without its first and last character
Inner(text) == [i \in 1..(Len(text) - 2) |-> text[i + 1]]

HasQuote(text) == \E k \in 1..Len(text) : text[k] = "\""

\* the raw text, trimmed and rid of one pair of wrapping quotes
Unquoted(text) == IF Wrapped(strip(text)) THEN Inner(strip(text)) ELSE strip(text)

\* the quote and letter-case parts of C3: one pair of wrapping quotes goes (a second
\* pair inside stays), and a text that opens with a known prefix in any letter case
\* loses at least that prefix
C3_QuotesAndCase ==
    /\ (Wrapped(strip(raw)) /\ ~BeginsWithKnownPrefix(Inner(strip(raw))))
           => once = Inner(strip(raw))
    /\ \A i \in DOMAIN prefixes :
           StandsAt(Unquoted(raw), 1, prefixes[i])
               => Len(once) <= Len(Unquoted(raw)) - Len(prefixes[i])
    /\ ~BeginsWithKnownPrefix(Unquoted(raw)) => once = Unquoted(raw)

\* C3 as stated: the clean-up removes one pair of wrapping quotes and the known
\* prefixes in any letter case, so its result never begins with a known prefix.
C3_NeverBeginsWithPrefix ==
    stage # "raw" => (C3_QuotesAndCase /\ ~BeginsWithKnownPrefix(once))

\* C3 as amended: the clean-up removes one pair of wrapping quotes and, in the listed
\* order and in any letter case, each known prefix at most once (a lone double quote
\* counts as a wrapping pair); its result does not begin with a known prefix when the
\* raw text holds at most one known prefix (a prefix standing behind a removed one
\* stays).
C3_OnePassCleanUp ==
    stage # "raw" =>
        /\ C3_QuotesAndCase
        /\ Cardinality(PrefixOccurrences(raw)) <= 1 => ~BeginsWithKnownPrefix(once)

\* a quoted prefix in capitals and nothing else: quotes and prefix are gone
C3_Witness ==
    /\ stage = "once"
    /\ Wrapped(raw)
    /\ startswith(Inner(raw), <<"T","R","A","N","S","L","A","T","I","O","N",":">>)
    /\ Cardinality(PrefixOccurrences(raw)) = 1
    /\ once = <<>>

\* C10 as stated: cleaning the cleaned text again changes nothing.
C10_Idempotent == stage = "twice" => twice = once

\* C10 as amended: cleaning the cleaned text again changes nothing when the raw text
\* holds no double quote and at most one known prefix; the cleaned text is then
\* trimmed, not wrapped in quotes and without a leading prefix.
C10_IdempotentOnSimpleText ==
    (stage = "twice" /\ ~HasQuote(raw) /\ Cardinality(PrefixOccurrences(raw)) <= 1) =>
        /\ twice = once
        /\ strip(once) = once
        /\ ~Wrapped(once)
        /\ ~BeginsWithKnownPrefix(once)

\* a padded answer with one prefix: the first pass removes it, the second finds nothing
C10_Witness ==
    /\ stage = "twice"
    /\ ~HasQuote(raw)
    /\ Cardinality(PrefixOccurrences(raw)) = 1
    /\ once # raw
    /\ once = <<"h","i">>
    /\ twice = once

\* C9: get_language_name gives the display name of every code of the table and
\* "Unknown" for every other code ("auto", "" and None among them), and the table
\* stays as the module defines it.
C9_LookupOrUnknown ==
    /\ languages = SUPPORTED_LANGUAGES
    /\ stage = "names" =>
          \A k \in 1..2 :
             /\ \A i \in DOMAIN SUPPORTED_LANGUAGES :
                   SUPPORTED_LANGUAGES[i].code = codes[k]
                       => names[k] = SUPPORTED_LANGUAGES[i].name
             /\ (\A i \in DOMAIN SUPPORTED_LANGUAGES :
                   SUPPORTED_LANGUAGES[i].code # codes[k])
                       => names[k] = "Unknown"

\* a code of the table beside one that is not in it
C9_Witness ==
    /\ stage = "names"
    /\ codes = <<"auto", "ko">>
    /\ names = <<"Unknown", "Korean">>

\* the provider that was called answered with HTTP status 503
UpstreamUnavailable ==
    calls # <<>> /\ upstream.kind = "response" /\ upstream.status = 503

\* Hugging Face was called and answered 503
HuggingFaceLoading == calls = <<"huggingface">> /\ upstream.status = 503

\* no credential, and the handler gets as far as looking for one
MissingConfiguration ==
    ~Configured /\ (deployed = "dual" => ~is_blank(request.text))

\* C4 as stated: a 503 of the called provider is answered with 503, whichever
\* provider it was; every other upstream failure and a missing configuration with 500.
C4_UnavailableIs503 ==
    Translated =>
        /\ UpstreamUnavailable => response.status = 503
        /\ (UpstreamFailed /\ ~UpstreamUnavailable) => response.status = 500
        /\ MissingConfiguration => response.status = 500

\* C4 as amended: a 503 of Hugging Face is answered with 503; every other upstream
\* failure (a 503 of Groq or of Google among them, any other status, a timeout or
\* another exception) and a missing configuration are answered with 500.
C4_HuggingFace503Only ==
    Translated =>
        /\ HuggingFaceLoading => response.status = 503
        /\ (UpstreamFailed /\ ~HuggingFaceLoading) => response.status = 500
        /\ MissingConfiguration => response.status = 500
        /\ response.status \in { 200, 500, 503 }
        /\ response.status = 503 => HuggingFaceLoading

C4_Witness ==
    /\ Translated
    /\ HuggingFaceLoading
    /\ upstream.kind = "response"
    /\ response.status = 503

\* the detail of the response holds the message of the failed call
EmbedsUpstreamMessage ==
    \E i \in DOMAIN response.detail : response.detail[i] = upstream.text

LoadingDetail == <<"Model is loading. Please try again in a few seconds.">>

\* C5 as stated: at most one upstream call per request; a failed call is neither
\* retried nor followed by a call to the other provider, and the request ends in an
\* HTTP error whose detail holds the upstream error message.
C5_OneCallErrorEmbedded ==
    Translated =>
        /\ Len(calls) <= 1
        /\ UpstreamFailed =>
              /\ calls = <<upstream.from>>
              /\ response.status # 200
              /\ EmbedsUpstreamMessage

\* C5 as amended: as stated, but the detail of the 503 answered for a loading Hugging
\* Face model is the fixed text "Model is loading. Please try again in a few
\* seconds." and holds nothing of the upstream message.
C5_OneCallErrorSurfaced ==
    Translated =>
        /\ Len(calls) <= 1
        /\ UpstreamFailed =>
              /\ calls = <<upstream.from>>
              /\ response.status # 200
              /\ response.body = NoBody
              /\ IF HuggingFaceLoading
                 THEN response.detail = LoadingDetail
                 ELSE EmbedsUpstreamMessage

\* both keys set and Groq out of quota: one call, to Groq, and its message in the error
C5_Witness ==
    /\ Translated
    /\ Truthy(GROQ_API_KEY) /\ Truthy(HF_API_KEY)
    /\ calls = <<"groq">>
    /\ upstream.status = 429
    /\ response.status = 500
    /\ response.detail = <<"Translation failed: ", "Groq API error: ", "Rate limit reached">>

\* the bodies C6 names: status 200 and not the shape the provider documents
MalformedBody ==
    /\ calls # <<>>
    /\ upstream.kind = "response" /\ upstream.status = 200
    /\ \/ /\ upstream.from = "huggingface"
          /\ upstream.body.shape \in { "empty_list", "list_of_string",
                 "list_of_empty_object", "empty_object", "list_of_number_value",
                 "object_null_value", "string", "null" }
       \/ /\ upstream.from = "groq"
          /\ upstream.body.shape \in { "no_choices", "empty_choices", "null_content" }

\* C6: a status 200 with a malformed body does not fail the request: the body is
\* coerced to a string and a success response is returned.
C6_MalformedBodyCoerced ==
    (Translated /\ MalformedBody /\ request.source_language # None)
        => response.status = 200

\* C7: on src/src/main.py a request with empty or whitespace-only text gets a success
\* response with translated_text "", confidence 0.0 and its source and target codes,
\* with no prompt built and no provider called, whatever credentials are configured.
C7_BlankTextEmptySuccess ==
    (Translated /\ deployed = "dual" /\ is_blank(request.text)) =>
        /\ prompt = NoPrompt
        /\ calls = <<>>
        /\ response.status = 200
        /\ response.body = [translated_text |-> <<>>,
                            source_language |-> request.source_language,
                            target_language |-> request.target_language,
                            confidence |-> 0,
                            ai_enhanced |-> TRUE]

\* the text the provider sent, as a string
UpstreamText ==
    CASE upstream.body.shape \in { "chat", "list_of_object", "object", "string", "text" }
             -> upstream.body.text
      [] upstream.body.shape = "empty_list" -> <<"[", "]">>
      [] upstream.body.shape = "null" -> <<"N", "o", "n", "e">>
      [] OTHER -> <<>>

====
